---------------------------- MODULE Spec2Model ----------------------------
(***************************************************************************)
(* A model of src/main.py: the three-wave pattern detector, the            *)
(* consolidation detector, the breakout signal generator, the composite    *)
(* ranking, and the per-position exit state machine.                       *)
(*                                                                         *)
(* Prices and volumes are integers (ticks, lots).  Every percentage        *)
(* comparison of the source is made by cross-multiplication, i.e. in exact *)
(* arithmetic; the source's binary floating point is not modelled.         *)
(***************************************************************************)
EXTENDS Integers, Sequences, FiniteSets, TLC

VARIABLES
    positions,    \* g.positions: per stock, the tracked entry (held = key present)
    portfolio,    \* context.portfolio.positions[s].total_amount (0: absent or empty)
    orders,       \* the execution collaborator's open order per stock
    closeReqs,    \* order_target(s, 0) calls made for the entry now tracked
    day,          \* context.current_dt.date(), in calendar days
    sessions,     \* trading sessions started so far
    clock,        \* index into Times: context.current_dt.time()
    ranDaily,     \* the run_daily function of this minute has run
    ranMinute,    \* handle_data has run this minute
    pc,           \* where the call being analysed stands
    input,        \* the arguments and collaborator data of that call
    data,         \* identify_three_waves: the bars from the pattern start on
    waves,        \* identify_three_waves: the legs found so far
    support_levels, \* identify_three_waves: the supports recorded so far
    current_idx,  \* identify_three_waves: the cursor
    wave_type,    \* identify_three_waves: the direction of the next leg
    result        \* what that call returned

vars == <<positions, portfolio, orders, closeReqs, day, sessions, clock,
          ranDaily, ranMinute, pc, input, data, waves, support_levels,
          current_idx, wave_type, result>>

lifeVars == <<positions, portfolio, orders, closeReqs, day, sessions, clock,
              ranDaily, ranMinute>>

funVars == <<pc, input, data, waves, support_levels, current_idx, wave_type, result>>

segVars == <<data, waves, support_levels, current_idx, wave_type>>

Max(a, b) == IF a >= b THEN a ELSE b

Min(a, b) == IF a <= b THEN a ELSE b

(***************************************************************************)
(* Configuration: g.params of initialize().  Fractions are in percent.     *)
(***************************************************************************)
position_ratio_pct == 10

max_positions == 10

immediate_stop_loss_pct == 15

immediate_take_profit_pct == 20

tail_take_profit_pct == 15

time_stop_days == 30

min_wave_score == 40

trading_enabled == TRUE

(***************************************************************************)
(* Bounds of the position-lifecycle model.                                 *)
(***************************************************************************)
MaxSessions == 2

Stocks == {"000001", "600000"}

\* Calendar days from one session to the next one the scheduler runs.
DayGaps == {1, 29}

\* Entry price of a buy, and the live quotes the collaborator may report.
BuyPrices == {100}

Quotes == {85, 86, 100, 102, 115, 120}

\* The minutes of a session the model visits, in order.
Times == << [hour |-> 9,  minute |-> 25],
            [hour |-> 9,  minute |-> 30],
            [hour |-> 14, minute |-> 54],
            [hour |-> 14, minute |-> 55],
            [hour |-> 14, minute |-> 56] >>

current_time == Times[clock]

current_dt == [day |-> day, hour |-> current_time.hour, minute |-> current_time.minute]

NoTime == [day |-> -1, hour |-> 0, minute |-> 0]

\* sell_reason is the label of the reason string and the return it quotes,
\* in tenths of a percent.
NoReason == [label |-> "none", profit |-> 0]

NoPos == [held |-> FALSE, buy_price |-> 0, buy_time |-> NoTime,
          selling |-> FALSE, sell_reason |-> NoReason, sell_time |-> NoTime]

\* What one loop iteration meets: the quote lookup raises, or it returns a
\* price and a close submission (if one is made) raises, is rejected
\* (order_target returns None, which the caller does not look at), rests
\* open, or fills at once.
Ticks == {[kind |-> "quote_fail", price |-> 0]} \cup
         {[kind |-> k, price |-> p] :
            k \in {"order_fail", "rejected", "open", "filled"}, p \in Quotes}


(***************************************************************************)
(* CompositeScorer: calculate_composite_score and the sort of trade_logic. *)
(* A signal carries stock_code, signal_strength and shareholder_change     *)
(* ([present, value], value in percent; present = FALSE is None).          *)
(***************************************************************************)
NoChange == [present |-> FALSE, value |-> 0]

strength_score(strength) ==
    CASE strength = "strong" -> 100
      [] strength = "medium" -> 60
      [] strength = "weak"   -> 30
      [] OTHER               -> 0

\* Mutation: the bonus is not limited to [-50, 50].
shareholder_bonus_unclamped(change) ==
    IF change.present THEN change.value * (-10) ELSE 0

shareholder_bonus(change) ==
    IF change.present
    THEN Max(-50, Min(change.value * (-10), 50))
    ELSE 0

calculate_composite_score(signal) ==
    strength_score(signal.signal_strength) + shareholder_bonus(signal.shareholder_change)

\* The mutated insertion: an equal-score signal overtakes the earlier ones.
InsertBeforeEqual(sorted, x) ==
    LET ahead == {i \in 1..Len(sorted) :
                    calculate_composite_score(sorted[i]) > calculate_composite_score(x)}
        k == Cardinality(ahead)
    IN  SubSeq(sorted, 1, k) \o <<x>> \o SubSeq(sorted, k + 1, Len(sorted))

\* list.sort(key=..., reverse=True) keeps equal keys in their original
\* order: x goes behind every element already placed whose score is >= its own.
InsertByScore(sorted, x) ==
    LET ahead == {i \in 1..Len(sorted) :
                    calculate_composite_score(sorted[i]) >= calculate_composite_score(x)}
        k == Cardinality(ahead)
    IN  SubSeq(sorted, 1, k) \o <<x>> \o SubSeq(sorted, k + 1, Len(sorted))

RECURSIVE SortByScore(_)
SortByScore(signals) ==
    IF signals = <<>>
    THEN <<>>
    ELSE InsertByScore(SortByScore(SubSeq(signals, 1, Len(signals) - 1)),
                       signals[Len(signals)])

(***************************************************************************)
(* PositionLifecycle: check_immediate_stops, check_tail_position,          *)
(* cleanup_sold_positions, morning_cleanup, and the buying loop of         *)
(* trade_logic.  G is the record of what these functions read and write.   *)
(***************************************************************************)
G == [positions |-> positions, portfolio |-> portfolio,
      orders |-> orders, closeReqs |-> closeReqs]

InOpeningWindow(t) == t.hour = 9 /\ t.minute < 30

\* Mutation: the pre-close window opens a minute late.
InPreCloseWindowLate(t) == t.hour = 14 /\ t.minute > 55

InPreCloseWindow(t) == t.hour = 14 /\ t.minute >= 55

\* Mutation: the selling flag is never consulted.
NeverSelling(pos) == FALSE

AlreadySelling(pos) == pos.selling

\* Mutation: the stop boundary made exclusive.
StopLossHitStrict(buy_price, current_price) ==
    (current_price - buy_price) * 100 < -immediate_stop_loss_pct * buy_price

StopLossHit(buy_price, current_price) ==
    (current_price - buy_price) * 100 <= -immediate_stop_loss_pct * buy_price

TakeProfitHit(buy_price, current_price) ==
    (current_price - buy_price) * 100 >= immediate_take_profit_pct * buy_price

TailTakeHit(buy_price, current_price) ==
    (current_price - buy_price) * 100 >= tail_take_profit_pct * buy_price

\* Mutation: the time stop fires one day late.
TimeStopHitLate(hold_days) == hold_days > time_stop_days

TimeStopHit(hold_days) == hold_days >= time_stop_days

TimeStopReason(buy_price, current_price) ==
    IF (current_price - buy_price) * 100 > 0 THEN "time_profit" ELSE "time_loss"

\* profit_pct as the reason strings print it ({profit_pct:.1f}), exact for
\* the prices of the model.
ProfitTenths(buy_price, current_price) ==
    IF buy_price > 0 THEN ((current_price - buy_price) * 1000) \div buy_price ELSE 0

Flagged(pos, label, current_price, now) ==
    [pos EXCEPT !.selling = TRUE,
                !.sell_reason = [label |-> label,
                                 profit |-> ProfitTenths(pos.buy_price, current_price)],
                !.sell_time = now]

\* The reason check_immediate_stops would close for, "none" if it would not.
ImmediateReason(pos, current_price) ==
    IF StopLossHit(pos.buy_price, current_price) THEN "immediate_stop"
    ELSE IF TakeProfitHit(pos.buy_price, current_price) THEN "immediate_take"
    ELSE "none"

\* The reason check_tail_position would close for, "none" if it would not.
TailReason(pos, current_price, current_date) ==
    IF TailTakeHit(pos.buy_price, current_price) THEN "tail_take"
    ELSE IF TimeStopHit(current_date - pos.buy_time.day)
         THEN TimeStopReason(pos.buy_price, current_price)
    ELSE "none"

\* The loop iteration for stock s gets as far as the quote lookup.
ReadsQuote(g, s) ==
    /\ g.positions[s].held
    /\ ~AlreadySelling(g.positions[s])
    /\ g.portfolio[s] > 0

\* One iteration of either loop for stock s, given the reason computed from
\* the quote: the entry is left alone when it is already selling, when the
\* portfolio holds nothing, when the quote lookup raised, when no condition
\* is met, or when order_target raised before the flags were set.
\* Closes as it would be if the flags were written before the order is
\* submitted: an order that raises would leave the position flagged.
ClosesFlagsFirst(g, s, tk, reason) ==
    /\ ReadsQuote(g, s)
    /\ tk.kind # "quote_fail"
    /\ reason # "none"

Closes(g, s, tk, reason) ==
    /\ ReadsQuote(g, s)
    /\ tk.kind # "quote_fail"
    /\ reason # "none"
    /\ tk.kind # "order_fail"

LoopResult(g, tks, now, reasons) ==
    [positions |-> [s \in Stocks |->
                      IF Closes(g, s, tks[s], reasons[s])
                      THEN Flagged(g.positions[s], reasons[s], tks[s].price, now)
                      ELSE g.positions[s]],
     portfolio |-> [s \in Stocks |->
                      IF Closes(g, s, tks[s], reasons[s]) /\ tks[s].kind = "filled"
                      THEN 0 ELSE g.portfolio[s]],
     orders    |-> [s \in Stocks |->
                      IF Closes(g, s, tks[s], reasons[s])
                      THEN (IF tks[s].kind = "open" THEN "sell" ELSE "none")
                      ELSE g.orders[s]],
     closeReqs |-> [s \in Stocks |->
                      IF Closes(g, s, tks[s], reasons[s])
                      THEN g.closeReqs[s] + 1 ELSE g.closeReqs[s]]]

NoPositions(g) == \A s \in Stocks : ~g.positions[s].held

check_immediate_stops(g, tks, now) ==
    IF NoPositions(g) THEN g
    ELSE IF InOpeningWindow(now) THEN g
    ELSE IF InPreCloseWindow(now) THEN g
    ELSE LoopResult(g, tks, now,
                    [s \in Stocks |-> ImmediateReason(g.positions[s], tks[s].price)])

\* Which tracked entries cleanup_sold_positions deletes.
SoldOut(g, s) ==
    g.positions[s].held /\ g.positions[s].selling /\ g.portfolio[s] <= 0

\* Which tracked entries morning_cleanup deletes.
StaleSelling(g, s) ==
    g.positions[s].held /\ g.positions[s].selling

cleanup_sold_positions(g) ==
    [g EXCEPT !.positions = [s \in Stocks |->
                               IF SoldOut(g, s) THEN NoPos ELSE g.positions[s]],
              !.closeReqs = [s \in Stocks |->
                               IF SoldOut(g, s) THEN 0 ELSE g.closeReqs[s]]]

\* The loop of check_tail_position, before its cleanup.
tail_loop(g, tks, now) ==
    LoopResult(g, tks, now,
               [s \in Stocks |-> TailReason(g.positions[s], tks[s].price, now.day)])

check_tail_position(g, tks, now) ==
    IF NoPositions(g) THEN g
    ELSE cleanup_sold_positions(tail_loop(g, tks, now))

morning_cleanup(g) ==
    [g EXCEPT !.orders = [s \in Stocks |-> "none"],
              !.positions = [s \in Stocks |->
                               IF StaleSelling(g, s) THEN NoPos ELSE g.positions[s]],
              !.closeReqs = [s \in Stocks |->
                               IF StaleSelling(g, s) THEN 0 ELSE g.closeReqs[s]]]

handle_data(g, tks, now) ==
    IF ~trading_enabled THEN g
    ELSE IF InOpeningWindow(now) THEN g
    ELSE IF InPreCloseWindow(now) THEN g
    ELSE cleanup_sold_positions(check_immediate_stops(g, tks, now))

\* What the buying loop meets for a stock: the quote lookup raises, or it
\* returns a price and order_value fails (None or an exception), rests open,
\* or fills at once.
BuyTicks == {[kind |-> "quote_fail", price |-> 0]} \cup
            {[kind |-> k, price |-> p] : k \in {"order_fail", "open", "filled"}, p \in BuyPrices}

NewPos(price, now) ==
    [held |-> TRUE, buy_price |-> price, buy_time |-> now,
     selling |-> FALSE, sell_reason |-> NoReason, sell_time |-> NoTime]

AlreadyHeld(g, s) == g.positions[s].held \/ g.portfolio[s] > 0

RECURSIVE BuyLoop(_, _, _, _, _, _, _)
BuyLoop(signals, i, g, buy_count, max_buy, tks, now) ==
    IF i > Len(signals) \/ buy_count >= max_buy THEN g
    ELSE LET s == signals[i].stock_code IN
         IF AlreadyHeld(g, s)
         THEN BuyLoop(signals, i + 1, g, buy_count, max_buy, tks, now)
         ELSE IF tks[s].kind \in {"quote_fail", "order_fail"}
         THEN BuyLoop(signals, i + 1, g, buy_count, max_buy, tks, now)
         ELSE BuyLoop(signals, i + 1,
                      [g EXCEPT !.positions[s] = NewPos(tks[s].price, now),
                                !.orders[s] = IF tks[s].kind = "filled" THEN "none" ELSE "buy",
                                !.portfolio[s] = IF tks[s].kind = "filled" THEN 1 ELSE 0],
                      buy_count + 1, max_buy, tks, now)

\* signals: what generate_trade_signal returned for the candidates, in
\* discovery order; cash_ok: available cash and the per-stock amount both
\* reach 10000.
trade_logic(g, signals, tks, now, cash_ok) ==
    LET current_positions == Cardinality({s \in Stocks : g.portfolio[s] > 0})
        max_buy == Min(2, max_positions - current_positions)
        trade_signals == SortByScore(signals)
    IN  IF ~trading_enabled THEN g
        ELSE IF ~(now.hour = 14 /\ now.minute = 56) THEN g
        ELSE IF current_positions >= max_positions THEN g
        ELSE IF ~cash_ok THEN g
        ELSE IF signals = <<>> THEN g
        ELSE BuyLoop(SubSeq(trade_signals, 1, Min(Len(trade_signals), max_buy * 2)),
                     1, g, 0, max_buy, tks, now)

\* The signal batches a decision tick may see: up to one signal per stock,
\* in either discovery order, the scores differing.
LifeSignal == {[stock_code |-> s,
                signal_strength |-> IF s = "600000" THEN "strong" ELSE "weak",
                shareholder_change |-> NoChange] : s \in Stocks}

LifeSignals == {sq \in UNION {[1..n -> LifeSignal] : n \in 0..Cardinality(Stocks)} :
                  \A i, j \in 1..Len(sq) : i # j => sq[i].stock_code # sq[j].stock_code}

(***************************************************************************)
(* The scheduler: run_daily at 09:25, 14:55 and 14:56, handle_data every   *)
(* minute, fills by the execution collaborator in between.                 *)
(***************************************************************************)
\* The collaborator answers only the calls a loop makes: a quote where the
\* iteration gets as far as the lookup, an order outcome where the quote
\* gives a reason to close ("open" stands for no order_target call).
TicksFor(s, reason_at) ==
    {tk \in Ticks :
       /\ ~ReadsQuote(G, s) => tk.kind = "quote_fail"
       /\ (tk.kind # "quote_fail" /\ reason_at[tk.price] = "none") => tk.kind = "open"}

\* reason_at[s][p]: the reason the loop computes for stock s at quote p.
TickChoices(reason_at) ==
    LET RECURSIVE Over(_)
        Over(S) ==
            IF S = {}
            THEN {<<>>}
            ELSE LET s == CHOOSE x \in S : TRUE
                 IN  {(s :> tk) @@ tks : tk \in TicksFor(s, reason_at[s]),
                                         tks \in Over(S \ {s})}
    IN  Over(Stocks)

ImmediateChoices ==
    TickChoices([s \in Stocks |-> [p \in Quotes |-> ImmediateReason(positions[s], p)]])

TailChoices ==
    TickChoices([s \in Stocks |-> [p \in Quotes |-> TailReason(positions[s], p, day)]])

NoLookups == {[s \in Stocks |-> [kind |-> "quote_fail", price |-> 0]]}

\* The collaborator answers only for the signals the buying loop can reach.
BuyChoices(signals) ==
    {tks \in [Stocks -> BuyTicks] :
       \A s \in Stocks :
          (AlreadyHeld(G, s) \/ \A i \in 1..Len(signals) : signals[i].stock_code # s)
             => tks[s].kind = "quote_fail"}

Install(g) ==
    /\ positions' = g.positions
    /\ portfolio' = g.portfolio
    /\ orders' = g.orders
    /\ closeReqs' = g.closeReqs

InitLife ==
    /\ positions = [s \in Stocks |-> NoPos]
    /\ portfolio = [s \in Stocks |-> 0]
    /\ orders = [s \in Stocks |-> "none"]
    /\ closeReqs = [s \in Stocks |-> 0]
    /\ day = 0
    /\ sessions = 0
    /\ clock = 1
    /\ ranDaily = FALSE
    /\ ranMinute = FALSE

IdleSeg ==
    /\ data = <<>>
    /\ waves = <<>>
    /\ support_levels = <<>>
    /\ current_idx = 0
    /\ wave_type = "up"

IdleFun ==
    /\ pc = "idle"
    /\ input = <<>>
    /\ result = <<>>
    /\ IdleSeg

Init == InitLife /\ IdleFun

MorningCleanup ==
    /\ current_time = [hour |-> 9, minute |-> 25]
    /\ ~ranDaily
    /\ Install(morning_cleanup(G))
    /\ ranDaily' = TRUE
    /\ UNCHANGED <<day, sessions, clock, ranMinute, funVars>>

CheckTailPosition ==
    /\ current_time = [hour |-> 14, minute |-> 55]
    /\ ~ranDaily
    /\ \E tks \in TailChoices : Install(check_tail_position(G, tks, current_dt))
    /\ ranDaily' = TRUE
    /\ UNCHANGED <<day, sessions, clock, ranMinute, funVars>>

TradeLogic ==
    /\ current_time = [hour |-> 14, minute |-> 56]
    /\ ~ranDaily
    /\ \/ Install(trade_logic(G, <<>>, CHOOSE tks \in NoLookups : TRUE, current_dt, FALSE))
       \/ \E signals \in LifeSignals :
            \E tks \in BuyChoices(signals) :
               Install(trade_logic(G, signals, tks, current_dt, TRUE))
    /\ ranDaily' = TRUE
    /\ UNCHANGED <<day, sessions, clock, ranMinute, funVars>>

HandleData ==
    /\ ~ranMinute
    /\ \E tks \in (IF InOpeningWindow(current_time) \/ InPreCloseWindow(current_time)
                  THEN NoLookups ELSE ImmediateChoices) :
         Install(handle_data(G, tks, current_dt))
    /\ ranMinute' = TRUE
    /\ UNCHANGED <<day, sessions, clock, ranDaily, funVars>>

\* The execution collaborator fills an open order while the market is open.
Fill ==
    /\ current_time.hour * 100 + current_time.minute >= 930
    /\ \E s \in Stocks :
         /\ orders[s] # "none"
         /\ portfolio' = [portfolio EXCEPT ![s] = IF orders[s] = "buy" THEN 1 ELSE 0]
         /\ orders' = [orders EXCEPT ![s] = "none"]
    /\ UNCHANGED <<positions, closeReqs, day, sessions, clock, ranDaily, ranMinute, funVars>>

HasDaily(t) == t \in {[hour |-> 9, minute |-> 25], [hour |-> 14, minute |-> 55],
                      [hour |-> 14, minute |-> 56]}

\* handle_data is called every minute of the session (09:30 to 15:00).
MinuteDone == ranMinute \/ current_time.hour * 100 + current_time.minute < 930

DailyDone == ranDaily \/ ~HasDaily(current_time)

NextMinute ==
    /\ clock < Len(Times)
    /\ DailyDone /\ MinuteDone
    /\ clock' = clock + 1
    /\ ranDaily' = FALSE
    /\ ranMinute' = FALSE
    /\ UNCHANGED <<positions, portfolio, orders, closeReqs, day, sessions, funVars>>

NextSession ==
    /\ clock = Len(Times)
    /\ DailyDone /\ MinuteDone
    /\ sessions < MaxSessions
    /\ \E gap \in DayGaps : day' = day + gap
    /\ sessions' = sessions + 1
    /\ clock' = 1
    /\ ranDaily' = FALSE
    /\ ranMinute' = FALSE
    /\ UNCHANGED <<positions, portfolio, orders, closeReqs, funVars>>

Next ==
    \/ MorningCleanup
    \/ CheckTailPosition
    \/ TradeLogic
    \/ HandleData
    \/ Fill
    \/ NextMinute
    \/ NextSession

Spec == Init /\ [][Next]_vars


(***************************************************************************)
(* Properties of the position lifecycle, checked under Spec.               *)
(***************************************************************************)
Open(s) == positions[s].held /\ ~positions[s].selling

PendingClose(s) == positions[s].held /\ positions[s].selling

\* Neither the quote lookup nor order_target raises.
NothingRaises(tk) == tk.kind \in {"rejected", "open", "filled"}

\* C1: from the step that flags a position PendingClose until its removal,
\* exactly one close request has been submitted for it, and no step of any
\* check submits another or changes its close reason or close time.
C1_AtMostOneCloseRequest ==
    [][\A s \in Stocks :
         PendingClose(s) =>
            /\ closeReqs[s] = 1
            /\ closeReqs'[s] <= 1
            /\ positions'[s].held => positions'[s] = positions[s]]_vars

\* C1 witness: a PendingClose position flagged at 09:30, still held in the
\* portfolio, has been passed over by the intraday check of 14:54.
C1_Witness ==
    \E s \in Stocks :
        /\ PendingClose(s)
        /\ portfolio[s] > 0
        /\ closeReqs[s] = 1
        /\ positions[s].sell_time = [day |-> day, hour |-> 9, minute |-> 30]
        /\ current_time = [hour |-> 14, minute |-> 54]
        /\ ranMinute

\* C2: every step that removes a tracked position finds its held quantity
\* at zero.
C2_RemovedOnlyAtZero ==
    [][\A s \in Stocks :
         (positions[s].held /\ ~positions'[s].held) => portfolio'[s] = 0]_vars

C9_TimeStopAnySign ==
    \A s \in Stocks :
        (/\ Open(s)
         /\ portfolio[s] > 0
         /\ current_time = [hour |-> 14, minute |-> 55]
         /\ day - positions[s].buy_time.day >= time_stop_days)
        => \A tks \in TailChoices :
             (/\ NothingRaises(tks[s])
              /\ (tks[s].price - positions[s].buy_price) * 100
                    < tail_take_profit_pct * positions[s].buy_price)
             => LET looped == tail_loop(G, tks, current_dt)
                    after == check_tail_position(G, tks, current_dt)
                    label == IF tks[s].price > positions[s].buy_price
                             THEN "time_profit" ELSE "time_loss"
                IN  /\ looped.positions[s].held
                    /\ looped.positions[s].selling
                    /\ looped.positions[s].sell_reason.label = label
                    /\ looped.closeReqs[s] = 1
                    /\ tks[s].kind = "open" => after.positions[s] = looped.positions[s]

\* C9 witness: a position held 30 days and up 2.0% was closed at 14:55 as
\* a time-profit exit.
C9_Witness ==
    \E s \in Stocks :
        /\ PendingClose(s)
        /\ positions[s].sell_reason = [label |-> "time_profit", profit |-> 20]
        /\ positions[s].sell_time.day - positions[s].buy_time.day = time_stop_days
        /\ positions[s].sell_time.hour = 14 /\ positions[s].sell_time.minute = 55

\* Quotes at which the immediate stop or the immediate take-profit is met,
\* with an order that would fill at once.
TriggeringTicks ==
    {tks \in [Stocks -> {tk \in Ticks : tk.kind = "filled"}] :
       \A s \in Stocks, buy_price \in BuyPrices :
          \/ StopLossHit(buy_price, tks[s].price)
          \/ TakeProfitHit(buy_price, tks[s].price)}

\* C12: while the clock is in 09:00-09:29 or 14:55-14:59, a call of
\* handle_data or check_immediate_stops returns the state as it found it
\* even for quotes that meet the immediate stop or take-profit, a
\* handle_data step leaves positions, holdings, orders and close requests
\* unchanged, and a step that moves an Open position to PendingClose is
\* the 14:55 tail check.
C12_WindowsSuspendIntradayExits ==
    [][LET t == current_time
           in_window == (t.hour = 9 /\ t.minute < 30) \/ (t.hour = 14 /\ t.minute >= 55)
       IN  in_window =>
             /\ \A tks \in TriggeringTicks :
                   /\ handle_data(G, tks, current_dt) = G
                   /\ check_immediate_stops(G, tks, current_dt) = G
             /\ (~ranMinute /\ ranMinute')
                   => UNCHANGED <<positions, portfolio, orders, closeReqs>>
             /\ \A s \in Stocks :
                   (Open(s) /\ positions'[s].held /\ positions'[s].selling)
                      => (t = [hour |-> 14, minute |-> 55] /\ ~ranDaily /\ ranDaily')]_vars

\* C12 witness: handle_data has run at 14:55, before the tail check, on an
\* Open position with positive held quantity.
C12_Witness ==
    /\ current_time = [hour |-> 14, minute |-> 55]
    /\ ranMinute
    /\ ~ranDaily
    /\ \E s \in Stocks : Open(s) /\ portfolio[s] > 0

\* A call for the position raises: the quote lookup or the order submission.
Raises(tk) == tk.kind \in {"quote_fail", "order_fail"}

None == -1

Bar(i) == data[i + 1]

Close(i) == data[i + 1].close

\* The first position of price_data dated at or after start_date, None if
\* there is none.
LocateStart(price_data, start_date) ==
    LET later == {i \in 0..(Len(price_data) - 1) : price_data[i + 1].date >= start_date}
    IN  IF later = {} THEN None
        ELSE CHOOSE i \in later : \A j \in later : i <= j

\* for i in range(i, hi): if closes[i] < best_low: ...
RECURSIVE ScanLow(_, _, _)
ScanLow(i, hi, best_low_idx) ==
    IF i >= hi THEN best_low_idx
    ELSE IF Close(i) < Close(best_low_idx) THEN ScanLow(i + 1, hi, i)
    ELSE ScanLow(i + 1, hi, best_low_idx)

\* for i in range(i, hi): if closes[i] > best_high: ...
RECURSIVE ScanHigh(_, _, _)
ScanHigh(i, hi, best_high_idx) ==
    IF i >= hi THEN best_high_idx
    ELSE IF Close(i) > Close(best_high_idx) THEN ScanHigh(i + 1, hi, i)
    ELSE ScanHigh(i + 1, hi, best_high_idx)

WaveStart(cursor, type) ==
    IF type = "up"
    THEN ScanLow(cursor, Min(cursor + 10, Len(data)), cursor)
    ELSE ScanHigh(cursor, Min(cursor + 10, Len(data)), cursor)

\* closes[lo:hi], as a set of positions.
Slice(lo, hi) == {j \in 0..(Len(data) - 1) : lo <= j /\ j < hi}

\* Bar i ends an up leg begun at start_price.
IsUpEnd(i, start_price) ==
    /\ (Close(i) - start_price) * 100 >= 10 * start_price
    /\ i < Len(data) - 3
    /\ \A j \in Slice(Max(0, i - 3), i + 1) : Close(i) >= Close(j)
    /\ \A j \in Slice(i + 1, Min(Len(data), i + 4)) : Close(i) >= Close(j)

\* Bar i ends a down leg begun at start_price.
IsDownEnd(i, start_price) ==
    /\ (Close(i) - start_price) * 100 <= -5 * start_price
    /\ i < Len(data) - 3
    /\ \A j \in Slice(Max(0, i - 3), i + 1) : Close(i) <= Close(j)
    /\ \A j \in Slice(i + 1, Min(Len(data), i + 4)) : Close(i) <= Close(j)

\* for i in range(i, hi): ... break at the first bar that ends the leg.
RECURSIVE FindEnd(_, _, _, _)
FindEnd(i, hi, start_price, type) ==
    IF i >= hi THEN None
    ELSE IF (IF type = "up" THEN IsUpEnd(i, start_price) ELSE IsDownEnd(i, start_price))
         THEN i
    ELSE FindEnd(i + 1, hi, start_price, type)

\* Mutation: the forced end one bar late.
ForcedEndLate(start_idx) == Min(start_idx + 30, Len(data) - 1)

ForcedEnd(start_idx) == Min(start_idx + 29, Len(data) - 1)

WaveEnd(start_idx, type) ==
    LET found == FindEnd(start_idx + 5, Min(start_idx + 30, Len(data)),
                         Close(start_idx), type)
    IN  IF found = None THEN ForcedEnd(start_idx) ELSE found

RECURSIVE SumVolume(_, _)
SumVolume(lo, hi) ==
    IF lo > hi THEN 0 ELSE Bar(lo).volume + SumVolume(lo + 1, hi)

\* for i in range(len(wave_data)): the bar read is data.iloc[i], its volume
\* is volumes[i] = wave_data's, and avg_volume * 1.2 is compared exactly.
RECURSIVE SupportScan(_, _, _, _)
SupportScan(i, start_idx, end_idx, support_level) ==
    LET n == end_idx - start_idx + 1
        total == SumVolume(start_idx, end_idx)
    IN  IF i >= n THEN support_level
        ELSE IF /\ Bar(i).close > Bar(i).open
                /\ Bar(start_idx + i).volume * n * 10 > total * 12
                /\ (support_level = None \/ Bar(i).low < support_level)
             THEN SupportScan(i + 1, start_idx, end_idx, Bar(i).low)
        ELSE SupportScan(i + 1, start_idx, end_idx, support_level)

Truthy(x) == x # None /\ x # 0

WaveSupport(start_idx, end_idx, type) ==
    IF type = "up" THEN SupportScan(0, start_idx, end_idx, None) ELSE None

Duration(start_idx, end_idx) == end_idx - start_idx + 1

NewWave(cursor, type) ==
    LET start_idx == WaveStart(cursor, type)
        end_idx == WaveEnd(start_idx, type)
        support_level == WaveSupport(start_idx, end_idx, type)
    IN  [wave_type |-> type,
         start_idx |-> start_idx,
         end_idx |-> end_idx,
         start_price |-> Close(start_idx),
         end_price |-> Close(end_idx),
         duration |-> Duration(start_idx, end_idx),
         support_level |-> IF Truthy(support_level) THEN support_level ELSE None]

MaxWaves == 8

LoopContinues == current_idx < Len(data) - 10 /\ Len(waves) < MaxWaves

Flip(type) == IF type = "up" THEN "down" ELSE "up"

\* The cursor as it would be if the next search began at the leg's start.
CursorAtLegStart(w) == w.start_idx

\* current_idx = end_idx + 1
NextCursor(w) == w.end_idx + 1

\* The analysis after the loop.
UpWaves(ws) == SelectSeq(ws, LAMBDA w : w.wave_type = "up")

Take(sq, n) == SubSeq(sq, 1, Min(n, Len(sq)))

InScoreRange(w) ==
    /\ 10 * w.start_price <= (w.end_price - w.start_price) * 100
    /\ (w.end_price - w.start_price) * 100 <= 20 * w.start_price

RECURSIVE SumDurations(_)
SumDurations(ws) ==
    IF ws = <<>> THEN 0 ELSE ws[1].duration + SumDurations(Tail(ws))

Score(ws, supports) ==
    LET up3 == Take(UpWaves(ws), 3)
    IN  10 * Cardinality({k \in 1..Len(up3) : InScoreRange(up3[k])})
        + (IF SumDurations(ws) <= 90 THEN 20 ELSE 0)
        + (IF Len(supports) >= 2 THEN 20 ELSE 0)

HighsAscend(up_waves) ==
    up_waves[1].end_price < up_waves[2].end_price
      /\ up_waves[2].end_price < up_waves[3].end_price

SeqMax(sq) == CHOOSE x \in {sq[k] : k \in 1..Len(sq)} : \A k \in 1..Len(sq) : sq[k] <= x

ScorePasses(score) == ~(score < min_wave_score)

\* Mutation: one recorded support is taken for enough.
OneSupportEnough(supports) == ~(Len(supports) < 1)

EnoughSupport(supports) == ~(Len(supports) < 2)

Failed(reason) ==
    [confirmed |-> FALSE, reason |-> reason, wave_count |-> 0, waves |-> <<>>,
     support_levels |-> <<>>, wave_highs |-> <<>>, wave3_high |-> 0,
     strongest_support |-> None, total_days |-> 0, quality_score |-> 0]

Analysis(ws, supports) ==
    LET up_waves == UpWaves(ws)
        up3 == Take(up_waves, 3)
        wave_highs == [k \in 1..Len(up3) |-> up3[k].end_price]
        score == Score(ws, supports)
    IN  IF Len(up_waves) < 3 THEN Failed("too_few_up_waves")
        ELSE IF ~HighsAscend(up_waves) THEN Failed("highs_not_ascending")
        ELSE IF ~EnoughSupport(supports) THEN Failed("insufficient_support")
        ELSE IF ~ScorePasses(score) THEN Failed("score_below_threshold")
        ELSE [confirmed |-> TRUE, reason |-> "three_waves_confirmed",
              wave_count |-> Len(ws), waves |-> ws,
              support_levels |-> Take(supports, 3),
              wave_highs |-> wave_highs,
              wave3_high |-> wave_highs[3],
              strongest_support |-> SeqMax(Take(supports, 3)),
              total_days |-> SumDurations(ws),
              quality_score |-> Min(100, score)]


(***************************************************************************)
(* The price histories the detector is run on: up to MaxCycles cycles,     *)
(* each a run of legs [len, step, spike]: len bars, each closing step      *)
(* above the bar before it, the bar at offset spike trading three times    *)
(* the volume of the others.  Bars are dated 1, 2, ...                     *)
(***************************************************************************)
MaxCycles == 6

CycleKinds == {"A", "B", "T"}

Shape(kind) ==
    CASE kind = "A" -> << [len |-> 6, step |-> 3, spike |-> 1],
                          [len |-> 6, step |-> -2, spike |-> -1] >>
      [] kind = "B" -> << [len |-> 6, step |-> 3, spike |-> -1],
                          [len |-> 6, step |-> -2, spike |-> -1] >>
      [] kind = "T" -> << [len |-> 6, step |-> 6, spike |-> 1],
                          [len |-> 24, step |-> -1, spike |-> -1] >>
      [] kind = "E" -> << [len |-> 9, step |-> 3, spike |-> 1],
                          [len |-> 2, step |-> -2, spike |-> -1] >>

FirstOpen == [price |-> 100]

\* The legs of a sequence of cycles, in order.
RECURSIVE LegsOf(_)
LegsOf(cycles) ==
    IF cycles = <<>> THEN <<>> ELSE Shape(cycles[1]) \o LegsOf(Tail(cycles))

\* Bars and price change of the first k legs.
RECURSIVE BarsIn(_, _)
BarsIn(legs, k) == IF k = 0 THEN 0 ELSE BarsIn(legs, k - 1) + legs[k].len

RECURSIVE RiseIn(_, _)
RiseIn(legs, k) == IF k = 0 THEN 0 ELSE RiseIn(legs, k - 1) + legs[k].len * legs[k].step

\* The d-th bar (d = 1, 2, ...) of the history made of legs.
BarAt(legs, d) ==
    LET k == CHOOSE j \in 1..Len(legs) : BarsIn(legs, j - 1) < d /\ d <= BarsIn(legs, j)
        offset == d - BarsIn(legs, k - 1) - 1
        open == FirstOpen.price + RiseIn(legs, k - 1) + offset * legs[k].step
        close == open + legs[k].step
    IN  [date |-> d, open |-> open, close |-> close, low |-> Min(open, close) - 1,
         volume |-> IF offset = legs[k].spike THEN 30 ELSE 10]

Series(cycles) ==
    LET legs == LegsOf(cycles)
    IN  [d \in 1..BarsIn(legs, Len(legs)) |-> BarAt(legs, d)]

CycleSeqs == UNION {[1..n -> CycleKinds] : n \in 1..MaxCycles}

\* Histories that end two bars after a high: one or two cycles and a rise
\* of nine bars that has just turned.
EdgeSeqs == {Append(c, "E") : c \in UNION {[1..n -> CycleKinds] : n \in 1..2}}

\* The pattern start: the first bar, a bar inside the first cycle, or a date
\* after the last bar.
StartDates(price_data) == {1, 8, Len(price_data) + 1}

WaveInputs ==
    {[fetch |-> "none", price_data |-> <<>>, start_date |-> 1],
     [fetch |-> "raises", price_data |-> <<>>, start_date |-> 1]}
    \cup UNION {LET price_data == Series(c)
                IN  {[fetch |-> "ok", price_data |-> price_data, start_date |-> d] :
                       d \in StartDates(price_data)} : c \in CycleSeqs \cup EdgeSeqs}

(***************************************************************************)
(* One call of identify_three_waves, a step at a time.                     *)
(***************************************************************************)
MinBars == 30

\* Mutation: a history one bar short is let through.
InsufficientLengthOffByOne(price_data, start_idx) ==
    start_idx = None \/ Len(price_data) - start_idx < MinBars - 1

\* start_idx is None or len(price_data) - start_idx < 30
InsufficientLength(price_data, start_idx) ==
    start_idx = None \/ Len(price_data) - start_idx < MinBars

InitWaves ==
    /\ InitLife
    /\ pc = "start"
    /\ input \in WaveInputs
    /\ result = <<>>
    /\ IdleSeg

FetchReturnsNone ==
    /\ pc = "start"
    /\ input.fetch = "none"
    /\ result' = Failed("fetch_failed")
    /\ pc' = "done"
    /\ UNCHANGED <<input, segVars, lifeVars>>

FetchRaises ==
    /\ pc = "start"
    /\ input.fetch = "raises"
    /\ result' = Failed("exception")
    /\ pc' = "done"
    /\ UNCHANGED <<input, segVars, lifeVars>>

TooShort ==
    /\ pc = "start"
    /\ input.fetch = "ok"
    /\ InsufficientLength(input.price_data,
                          LocateStart(input.price_data, input.start_date))
    /\ result' = Failed("insufficient_length")
    /\ pc' = "done"
    /\ UNCHANGED <<input, segVars, lifeVars>>

BeginSegmentation ==
    /\ pc = "start"
    /\ input.fetch = "ok"
    /\ LET start_idx == LocateStart(input.price_data, input.start_date)
       IN  /\ ~InsufficientLength(input.price_data, start_idx)
           /\ data' = SubSeq(input.price_data, start_idx + 1, Len(input.price_data))
    /\ waves' = <<>>
    /\ support_levels' = <<>>
    /\ current_idx' = 0
    /\ wave_type' = "up"
    /\ pc' = "loop"
    /\ UNCHANGED <<input, result, lifeVars>>

FindWave ==
    /\ pc = "loop"
    /\ LoopContinues
    /\ LET w == NewWave(current_idx, wave_type)
       IN  /\ waves' = Append(waves, w)
           /\ support_levels' = IF w.support_level # None
                                THEN Append(support_levels, w.support_level)
                                ELSE support_levels
           /\ current_idx' = NextCursor(w)
    /\ wave_type' = Flip(wave_type)
    /\ UNCHANGED <<pc, input, data, result, lifeVars>>

Analyse ==
    /\ pc = "loop"
    /\ ~LoopContinues
    /\ result' = Analysis(waves, support_levels)
    /\ pc' = "done"
    /\ UNCHANGED <<input, segVars, lifeVars>>

NextWaves ==
    \/ FetchReturnsNone
    \/ FetchRaises
    \/ TooShort
    \/ BeginSegmentation
    \/ FindWave
    \/ Analyse

SpecWaves == InitWaves /\ [][NextWaves]_vars

\* identify_three_waves is one synchronous call: once entered, the
\* interpreter keeps executing it until it returns, so every step of it is
\* weakly fair.  FindWave is enabled exactly when its guard holds (NewWave
\* is defined for every cursor and the step lengthens waves), and its weak
\* fairness is written out with that guard in the place of ENABLED.
FindWaveFair ==
    \/ []<>~(pc = "loop" /\ LoopContinues)
    \/ []<><<FindWave>>_vars

SpecWavesFair ==
    /\ SpecWaves
    /\ WF_vars(FetchReturnsNone \/ FetchRaises \/ TooShort \/ BeginSegmentation \/ Analyse)
    /\ FindWaveFair


(***************************************************************************)
(* Properties of identify_three_waves, checked under SpecWaves.            *)
(***************************************************************************)
Returned == pc = "done"

UpLegs == SelectSeq(waves, LAMBDA w : w.wave_type = "up")

\* C3: when identify_three_waves returns confirmed = true, the legs it
\* produced hold at least 3 Up legs, the end prices of the first three Up
\* legs strictly increase, the returned support_levels has at least 2
\* entries, and quality_score is at least min_wave_score.
C3_ConfirmedImpliesPattern ==
    (Returned /\ result.confirmed) =>
        /\ Len(UpLegs) >= 3
        /\ UpLegs[1].end_price < UpLegs[2].end_price
        /\ UpLegs[2].end_price < UpLegs[3].end_price
        /\ Len(result.support_levels) >= 2
        /\ result.quality_score >= min_wave_score

\* C3 witness: a confirmed pattern.
C3_Witness ==
    /\ Returned
    /\ result.confirmed
    /\ Len(UpLegs) >= 3

\* C4: one run of the segmentation produces at most 8 legs, and every leg,
\* however it ended, lasts end_idx - start_idx + 1 <= 30 bars.
C4_LegBounds ==
    /\ Len(waves) <= 8
    /\ \A k \in 1..Len(waves) :
          /\ waves[k].duration = waves[k].end_idx - waves[k].start_idx + 1
          /\ waves[k].duration <= 30

\* C4 witness: the leg limit is reached, one of the eight legs being a
\* forced one of 30 bars.
C4_Witness ==
    /\ Len(waves) = 8
    /\ \E k \in 1..Len(waves) :
          waves[k].duration = 30 /\ waves[k].end_idx = ForcedEnd(waves[k].start_idx)

BarsFromStart ==
    Cardinality({i \in 1..Len(input.price_data) :
                   input.price_data[i].date >= input.start_date})

ShortHistory == input.fetch = "ok" /\ BarsFromStart < 30

\* C5: on a price series with fewer than 30 bars at or after the pattern
\* start (none included), the call runs no segmentation and returns
\* confirmed = false with the insufficient-length reason, not an exception.
C5_ShortHistoryRejected ==
    ShortHistory =>
        /\ pc \in {"start", "done"}
        /\ waves = <<>> /\ data = <<>>
        /\ Returned => (~result.confirmed /\ result.reason = "insufficient_length")

\* C5 witness: the call has returned on a history of 29 bars from the start.
C5_Witness ==
    /\ Returned
    /\ input.fetch = "ok"
    /\ BarsFromStart = 29
    /\ result.reason = "insufficient_length"

\* The bars of leg w that close above their open on a volume above 1.2
\* times the mean volume of the leg.
SupportBars(w) ==
    LET n == w.end_idx - w.start_idx + 1
        total == SumVolume(w.start_idx, w.end_idx)
    IN  {i \in w.start_idx..w.end_idx :
           /\ Bar(i).close > Bar(i).open
           /\ Bar(i).volume * n * 10 > total * 12}

\* C13: the support recorded for an Up leg is the lowest low among the bars
\* start_idx..end_idx of the leg that close above their open on a volume
\* above 1.2 times the leg's mean volume, and is absent when the leg has
\* no such bar.
C13_SupportIsLowestLowInsideLeg ==
    \A k \in 1..Len(waves) :
        waves[k].wave_type = "up" =>
            LET bars == SupportBars(waves[k])
            IN  IF bars = {}
                THEN waves[k].support_level = None
                ELSE /\ \E i \in bars : waves[k].support_level = Bar(i).low
                     /\ \A i \in bars : waves[k].support_level <= Bar(i).low

\* The bars that may end leg w under a window truncated at the end of the
\* series: 5 to 29 bars after the start, 10% above (5% below) the start
\* price, and not below (above) any close of the three bars before and of
\* the up to three bars after.
EndCandidates(w) ==
    LET last == Len(data) - 1
        up == w.wave_type = "up"
    IN  {i \in (w.start_idx + 5)..Min(w.start_idx + 29, last) :
           /\ IF up THEN (Close(i) - w.start_price) * 100 >= 10 * w.start_price
                    ELSE (Close(i) - w.start_price) * 100 <= -5 * w.start_price
           /\ \A j \in Max(0, i - 3)..Min(last, i + 3) :
                 IF up THEN Close(i) >= Close(j) ELSE Close(i) <= Close(j)}

\* C14: a leg ends at the first bar, 5 to 29 bars after its start, whose
\* close is at least 10% above the start price (at most 5% below it for a
\* Down leg) and is a local maximum (minimum) of the closes of the three
\* bars before and the three bars after, a bar near the end of the series
\* being tested against the bars that exist.
C14_EndsAtFirstConfirmedExtremum ==
    \A k \in 1..Len(waves) :
        LET ends == EndCandidates(waves[k])
        IN  ends # {} =>
               /\ waves[k].end_idx \in ends
               /\ \A i \in ends : waves[k].end_idx <= i

\* C16: the segmentation loop terminates.  Each iteration, entered at
\* cursor current_idx, appends a leg with
\* current_idx <= start_idx <= end_idx <= Len(data) - 1 and duration >= 1,
\* moves the cursor to end_idx + 1, strictly beyond where it was, and flips
\* the direction; the legs recorded so far start with an Up leg, alternate
\* Up/Down and are chronologically disjoint; and every call eventually
\* returns.
C16_SegmentationTerminates ==
    /\ [][(pc = "loop" /\ pc' = "loop")
            => LET w == waves'[Len(waves')]
               IN  /\ Len(waves') = Len(waves) + 1
                   /\ current_idx <= w.start_idx
                   /\ w.start_idx <= w.end_idx
                   /\ w.end_idx <= Len(data) - 1
                   /\ w.duration = w.end_idx - w.start_idx + 1
                   /\ w.duration >= 1
                   /\ w.wave_type = wave_type
                   /\ current_idx' = w.end_idx + 1
                   /\ current_idx' > current_idx
                   /\ Len(data) - current_idx' < Len(data) - current_idx
                   /\ wave_type' # wave_type]_vars
    /\ [](pc \in {"loop", "done"} /\ Len(waves) > 0
             => /\ waves[1].wave_type = "up"
                /\ \A k \in 1..(Len(waves) - 1) :
                      /\ waves[k + 1].wave_type # waves[k].wave_type
                      /\ waves[k].end_idx < waves[k + 1].start_idx)
    /\ <>(pc = "done")

\* C16 witness: a call that returned after leaving the loop because the
\* cursor came within ten bars of the end of the series, with at least
\* three legs recorded, one of them starting beyond the cursor it was
\* searched from.
C16_Witness ==
    /\ pc = "done"
    /\ Len(waves) >= 3
    /\ Len(waves) < MaxWaves
    /\ current_idx >= Len(data) - 10
    /\ \E k \in 1..(Len(waves) - 1) : waves[k + 1].start_idx > waves[k].end_idx + 1


(***************************************************************************)
(* ConsolidationDetector: check_consolidation.                             *)
(*                                                                         *)
(* A bar of the 60-day window is [close, volume].  A ratio is kept as the  *)
(* fraction [num, den], den > 0, and compared by cross-multiplication.     *)
(* NoResult is the return value None.                                      *)
(***************************************************************************)
NoResult == [kind |-> "none"]

Ratio(num, den) == [num |-> num, den |-> den]

\* strongest_support * 0.98 <= price <= wave3_high * 1.02
InRange(price, strongest_support, wave3_high) ==
    /\ 98 * strongest_support <= 100 * price
    /\ 100 * price <= 102 * wave3_high

in_range_count(price_data, strongest_support, wave3_high) ==
    Cardinality({i \in 1..Len(price_data) :
                   InRange(price_data[i].close, strongest_support, wave3_high)})

RECURSIVE SumVolumes(_, _, _)
SumVolumes(price_data, lo, hi) ==
    IF lo > hi THEN 0 ELSE price_data[lo].volume + SumVolumes(price_data, lo + 1, hi)

\* mean(volumes[-10:]) / mean(volumes[:10]), 1 when the early mean is 0
volume_ratio(price_data) ==
    LET n == Len(price_data)
        recent_sum == SumVolumes(price_data, n - 9, n)
        early_sum == SumVolumes(price_data, 1, 10)
    IN  IF n >= 20
        THEN (IF early_sum > 0 THEN Ratio(recent_sum, early_sum) ELSE Ratio(1, 1))
        ELSE Ratio(1, 1)

price_position(current_price, strongest_support, wave3_high) ==
    IF wave3_high > strongest_support
    THEN Ratio((current_price - strongest_support) * 100, wave3_high - strongest_support)
    ELSE Ratio(50, 1)

\* Mutation: a volume ratio of exactly 1.5 still passes.
IsConsolidatingAtLimit(in_range_ratio, vol_ratio) ==
    /\ in_range_ratio.num * 10 >= 7 * in_range_ratio.den
    /\ vol_ratio.num * 2 <= 3 * vol_ratio.den

\* in_range_ratio >= 0.7 and volume_ratio < 1.5
IsConsolidating(in_range_ratio, vol_ratio) ==
    /\ in_range_ratio.num * 10 >= 7 * in_range_ratio.den
    /\ vol_ratio.num * 2 < 3 * vol_ratio.den

TooFewBars(price_data) == Len(price_data) < 20

Consolidation(price_data, wave3_high, supports) ==
    LET strongest_support == SeqMax(supports)
        in_range_ratio == Ratio(in_range_count(price_data, strongest_support, wave3_high),
                                Len(price_data))
        vol_ratio == volume_ratio(price_data)
        current_price == price_data[Len(price_data)].close
    IN  [kind             |-> "consolidation",
         is_consolidating |-> IsConsolidating(in_range_ratio, vol_ratio),
         in_range_ratio   |-> in_range_ratio,
         volume_ratio     |-> vol_ratio,
         current_price    |-> current_price,
         support_level    |-> strongest_support,
         resistance_level |-> wave3_high,
         price_position   |-> price_position(current_price, strongest_support, wave3_high)]

\* <<p_in, p_out>> for a support of 100 and a wave3_high of 120: 98 and
\* 122 are the last closes inside the range, 97 and 123 the first outside.
ClosePairs == {<<98, 97>>, <<110, 123>>, <<122, 123>>}

\* The window the collaborator returns: n bars, the first k of them closing
\* at p_in and the others at p_out; the first ten bars trade early lots a
\* day, the last ten recent lots, the bars between them 10.
ConsBars(n, k, p_in, p_out, early, recent) ==
    [i \in 1..n |-> [close  |-> IF i <= k THEN p_in ELSE p_out,
                     volume |-> IF i <= 10 THEN early
                                ELSE IF i > n - 10 THEN recent ELSE 10]]

ConsWindows ==
    {ConsBars(n, k, p[1], p[2], early, recent) :
        n \in {19, 20, 30}, k \in {0, 13, 14, 20, 21, 30}, p \in ClosePairs,
        early \in {0, 10, 20}, recent \in {14, 15, 16, 30}}

SupportLists == {<<>>, <<100>>, <<90, 100, 95>>}

ConsInputs ==
    {[fetch |-> f, price_data |-> <<>>, wave3_high |-> 120, support_levels |-> <<90, 100, 95>>] :
        f \in {"none", "raises"}}
    \cup {[fetch |-> "ok", price_data |-> w, wave3_high |-> 120, support_levels |-> sl] :
             w \in ConsWindows,
             sl \in SupportLists}

InitCons ==
    /\ InitLife
    /\ IdleSeg
    /\ pc = "cons_start"
    /\ input \in ConsInputs
    /\ result = <<>>

ConsReturn(value) ==
    /\ result' = value
    /\ pc' = "cons_done"
    /\ UNCHANGED <<input, segVars, lifeVars>>

\* get_price returned None, or raised into the catch-all.
ConsNoData ==
    /\ pc = "cons_start"
    /\ input.fetch # "ok"
    /\ ConsReturn(NoResult)

ConsTooFewBars ==
    /\ pc = "cons_start"
    /\ input.fetch = "ok"
    /\ TooFewBars(input.price_data)
    /\ ConsReturn(NoResult)

ConsNoSupport ==
    /\ pc = "cons_start"
    /\ input.fetch = "ok"
    /\ ~TooFewBars(input.price_data)
    /\ input.support_levels = <<>>
    /\ ConsReturn(NoResult)

ConsEvaluate ==
    /\ pc = "cons_start"
    /\ input.fetch = "ok"
    /\ ~TooFewBars(input.price_data)
    /\ input.support_levels # <<>>
    /\ ConsReturn(Consolidation(input.price_data, input.wave3_high, input.support_levels))

NextCons ==
    \/ ConsNoData
    \/ ConsTooFewBars
    \/ ConsNoSupport
    \/ ConsEvaluate

SpecCons == InitCons /\ [][NextCons]_vars

(***************************************************************************)
(* Properties of check_consolidation, checked under SpecCons.              *)
(***************************************************************************)
Reported == pc = "cons_done" /\ result # NoResult

\* C6: check_consolidation reports is_consolidating = true exactly when the
\* in_range_ratio it reports is at least 0.7 and the volume_ratio it reports
\* is below 1.5; with volume_ratio >= 1.5 it reports false whatever the
\* in_range_ratio.  The reported ratios are those of the window: the share
\* of closes within [0.98 * strongest support, 1.02 * wave3_high] and the
\* volume of the last ten bars over that of the first ten.
C6_ConsolidatingIffBoth ==
    Reported =>
        LET bars == input.price_data
            n == Len(bars)
            lo == 98 * SeqMax(input.support_levels)
            hi == 102 * input.wave3_high
            inside == Cardinality({i \in 1..n : lo <= 100 * bars[i].close
                                                 /\ 100 * bars[i].close <= hi})
            recent == SumVolumes(bars, n - 9, n)
            early == SumVolumes(bars, 1, 10)
            r == result.in_range_ratio
            v == result.volume_ratio
        IN  /\ r.num * n = inside * r.den
            /\ early > 0 => v.num * early = recent * v.den
            /\ early = 0 => v.num = v.den
            /\ result.is_consolidating <=> (10 * r.num >= 7 * r.den /\ 2 * v.num < 3 * v.den)
            /\ 2 * v.num >= 3 * v.den => ~result.is_consolidating

\* C6 witness: a window with every close in range whose volume ratio is
\* exactly 1.5 is reported as not consolidating.
C6_Witness ==
    /\ Reported
    /\ result.in_range_ratio.num = result.in_range_ratio.den
    /\ 2 * result.volume_ratio.num = 3 * result.volume_ratio.den
    /\ ~result.is_consolidating

(***************************************************************************)
(* The ranking of trade_logic on its own: the signals generate_trade_signal *)
(* returned, in discovery order, are sorted by composite score.            *)
(***************************************************************************)
MaxSignals == 3

\* The stock of the i-th candidate of the pool.
RankCodes == <<"000001", "600000", "300001", "688001">>

Strengths == {"strong", "medium", "weak"}

\* get_shareholder_change: None, or the fall of the holder count in percent.
Changes == {NoChange} \cup {[present |-> TRUE, value |-> v] : v \in {-7, -3, 0, 7}}

InitRank ==
    /\ InitLife
    /\ IdleSeg
    /\ pc = "rank_collect"
    /\ input = <<>>
    /\ result = <<>>

\* generate_trade_signal returned a signal for the next candidate, which is
\* appended to trade_signals.
Discover ==
    /\ pc = "rank_collect"
    /\ Len(input) < MaxSignals
    /\ \E st \in Strengths, ch \in Changes :
          input' = Append(input, [stock_code         |-> RankCodes[Len(input) + 1],
                                  signal_strength    |-> st,
                                  shareholder_change |-> ch])
    /\ UNCHANGED <<pc, result, segVars, lifeVars>>

\* trade_signals.sort(key=calculate_composite_score, reverse=True)
RankSort ==
    /\ pc = "rank_collect"
    /\ input # <<>>
    /\ result' = SortByScore(input)
    /\ pc' = "rank_done"
    /\ UNCHANGED <<input, segVars, lifeVars>>

NextRank == Discover \/ RankSort

SpecRank == InitRank /\ [][NextRank]_vars

(***************************************************************************)
(* Properties of the ranking, checked under SpecRank.                      *)
(***************************************************************************)
Ranked == pc = "rank_done"

Discovery(signal) == CHOOSE k \in 1..Len(input) : input[k] = signal

\* C7: the ranking is a rearrangement of the discovered signals in
\* descending composite score, and two signals of equal composite score
\* stand in the order in which they were discovered.
C7_StableDescendingSort ==
    Ranked =>
        /\ Len(result) = Len(input)
        /\ \A k \in 1..Len(input) : \E i \in 1..Len(result) : result[i] = input[k]
        /\ \A i, j \in 1..Len(result) :
              i < j =>
                 /\ calculate_composite_score(result[i]) >= calculate_composite_score(result[j])
                 /\ calculate_composite_score(result[i]) = calculate_composite_score(result[j])
                       => Discovery(result[i]) < Discovery(result[j])

\* C7 witness: a ranking that moved a signal and holds two signals of
\* different strength and equal composite score.
C7_Witness ==
    /\ Ranked
    /\ result # input
    /\ \E i, j \in 1..Len(result) :
          /\ i < j
          /\ result[i].signal_strength # result[j].signal_strength
          /\ calculate_composite_score(result[i]) = calculate_composite_score(result[j])

Breakthrough(today, resistance) == today.close > resistance

\* today_high > resistance * 1.01 and today_close > open * 1.02
EarlyBreak(today, resistance) ==
    /\ 100 * today.high > 101 * resistance
    /\ 100 * today.close > 102 * today.open

RECURSIVE SeqSum(_)
SeqSum(sq) == IF sq = <<>> THEN 0 ELSE sq[1] + SeqSum(Tail(sq))

\* The mean of the five-bar frame, or today's own volume when the frame has
\* fewer than five bars.
avg_volume_5(today, prev_volumes) ==
    LET frame == Append(prev_volumes, today.volume)
    IN  IF Len(frame) >= 5 THEN Ratio(SeqSum(frame), 5) ELSE Ratio(today.volume, 1)

\* today's volume / avg_volume_5, 1 when the average is not positive
volume_ratio_today(today, prev_volumes) ==
    LET avg == avg_volume_5(today, prev_volumes)
    IN  IF avg.num > 0 THEN Ratio(today.volume * avg.den, avg.num) ELSE Ratio(1, 1)

\* ratio > tenths / 10
Exceeds(ratio, tenths) == 10 * ratio.num > tenths * ratio.den

\* Mutation: a volume ratio of exactly 1.5 counts as strong.
IsStrongAtLimit(breakthrough, early_break, vol_ratio) ==
    breakthrough /\ early_break /\ 10 * vol_ratio.num >= 15 * vol_ratio.den

IsStrong(breakthrough, early_break, vol_ratio) ==
    breakthrough /\ early_break /\ Exceeds(vol_ratio, 15)

IsMedium(breakthrough, vol_ratio) == breakthrough /\ Exceeds(vol_ratio, 12)

IsWeak(today, resistance, vol_ratio) == today.high > resistance /\ Exceeds(vol_ratio, 10)

\* signal_strength and position_ratio after the if / elif / elif.
Strength(today, resistance, vol_ratio) ==
    LET breakthrough == Breakthrough(today, resistance)
        early_break == EarlyBreak(today, resistance)
    IN  IF IsStrong(breakthrough, early_break, vol_ratio)
        THEN [signal_strength |-> "strong", position_ratio |-> position_ratio_pct * 10]
        ELSE IF IsMedium(breakthrough, vol_ratio)
        THEN [signal_strength |-> "medium", position_ratio |-> position_ratio_pct * 6]
        ELSE IF IsWeak(today, resistance, vol_ratio)
        THEN [signal_strength |-> "weak", position_ratio |-> position_ratio_pct * 3]
        ELSE [signal_strength |-> "weak", position_ratio |-> 0]

\* Steps 5 to 7 and the signal built from them; stop_loss and take_profit
\* are in hundredths of a price unit.
Signal(in) ==
    LET resistance == in.three_waves.wave3_high
        vol_ratio == volume_ratio_today(in.today, in.prev_volumes)
        s == Strength(in.today, resistance, vol_ratio)
    IN  IF s.position_ratio <= 0
        THEN NoResult
        ELSE [kind               |-> "signal",
              stock_code         |-> in.stock_code,
              signal_strength    |-> s.signal_strength,
              position_ratio     |-> s.position_ratio,
              entry_price        |-> in.today.close,
              stop_loss          |-> in.consolidation.support_level
                                       * (100 - immediate_stop_loss_pct),
              take_profit        |-> in.today.close * (100 + immediate_take_profit_pct),
              shareholder_change |-> in.shareholder_change,
              volume_ratio       |-> vol_ratio]

\* The 200-bar lookup of identify_A_kill: it raises, or it returns bars bars
\* whose highest high is max_high and whose lowest close is min_close.
AKillHistories ==
    {[fetch |-> "raises", bars |-> 0, max_high |-> 0, min_close |-> 0]} \cup
    {[fetch |-> "ok", bars |-> n, max_high |-> h, min_close |-> 100] :
        n \in {59, 60}, h \in {130, 131}}

\* identify_A_kill as it would be if a rise of exactly 30% counted.
identify_A_kill_at_limit(h) ==
    IF h.fetch = "raises" THEN [has_A_kill |-> TRUE, has_bottom_date |-> FALSE]
    ELSE IF h.bars < 60 THEN [has_A_kill |-> TRUE, has_bottom_date |-> FALSE]
    ELSE IF (h.max_high - h.min_close) * 100 >= 30 * h.min_close
         THEN [has_A_kill |-> TRUE, has_bottom_date |-> TRUE]
    ELSE [has_A_kill |-> TRUE, has_bottom_date |-> FALSE]

\* What identify_A_kill returns: the pattern with its bottom date when
\* total_change > 30, the bare {'has_A_kill': True} otherwise; has_bottom_date
\* says whether the key 'A_bottom_date' is in the dictionary.
identify_A_kill(h) ==
    IF h.fetch = "raises" THEN [has_A_kill |-> TRUE, has_bottom_date |-> FALSE]
    ELSE IF h.bars < 60 THEN [has_A_kill |-> TRUE, has_bottom_date |-> FALSE]
    ELSE IF (h.max_high - h.min_close) * 100 > 30 * h.min_close
         THEN [has_A_kill |-> TRUE, has_bottom_date |-> TRUE]
    ELSE [has_A_kill |-> TRUE, has_bottom_date |-> FALSE]

WavesResults == {[confirmed |-> FALSE, wave3_high |-> 0],
                 [confirmed |-> TRUE, wave3_high |-> 100]}

ConsResults == {NoResult} \cup
               {[kind |-> "consolidation", is_consolidating |-> c, support_level |-> 90] :
                  c \in BOOLEAN}

\* Today's bar opens at 100 against a resistance of 100.
TodayBars == {[kind |-> "bar", open |-> 100, close |-> c, high |-> h, volume |-> v] :
                c \in {99, 100, 101, 102, 103}, h \in {100, 101, 102, 103},
                v \in {0, 2, 3, 4, 5, 6, 7}}

NoFrame == {[kind |-> "none"], [kind |-> "empty"]}

TodayFrames == NoFrame \cup {b \in TodayBars : b.high >= b.close}

PrevVolumes == {<<2, 2, 2, 1>>, <<5, 5, 5, 4>>, <<2, 2, 2, 2>>, <<0, 0, 0, 0>>, <<2>>, <<>>}

InitSignal ==
    /\ InitLife
    /\ IdleSeg
    /\ pc = "sig_a_kill"
    /\ \E h \in AKillHistories, w \in WavesResults, c \in ConsResults, t \in TodayFrames,
          f \in {"ok", "raises"}, p \in PrevVolumes,
          ch \in {NoChange, [present |-> TRUE, value |-> -3]} :
          /\ f = "raises" => p = <<>>
          /\ input = [stock_code |-> "000001", history |-> h,
                      a_kill |-> identify_A_kill(h), three_waves |-> w,
                      consolidation |-> c, today |-> t, volume_fetch |-> f,
                      prev_volumes |-> p, shareholder_change |-> ch]
    /\ result = <<>>

SigReturn(value) ==
    /\ result' = value
    /\ pc' = "sig_done"
    /\ UNCHANGED <<input, segVars, lifeVars>>

SigGoto(label) ==
    /\ pc' = label
    /\ UNCHANGED <<input, result, segVars, lifeVars>>

\* Steps 1 and 2 up to the call: has_A_kill is tested, then
\* a_kill['A_bottom_date'] is read for the argument of identify_three_waves;
\* a missing key raises into the catch-all.
SigAKill ==
    /\ pc = "sig_a_kill"
    /\ IF ~input.a_kill.has_A_kill THEN SigReturn(NoResult)
       ELSE IF ~input.a_kill.has_bottom_date THEN SigReturn(NoResult)
       ELSE SigGoto("sig_three_waves")

SigThreeWaves ==
    /\ pc = "sig_three_waves"
    /\ IF ~input.three_waves.confirmed THEN SigReturn(NoResult)
       ELSE SigGoto("sig_consolidation")

SigConsolidation ==
    /\ pc = "sig_consolidation"
    /\ IF input.consolidation = NoResult THEN SigReturn(NoResult)
       ELSE IF ~input.consolidation.is_consolidating THEN SigReturn(NoResult)
       ELSE SigGoto("sig_today")

SigToday ==
    /\ pc = "sig_today"
    /\ IF input.today \in NoFrame THEN SigReturn(NoResult)
       ELSE SigGoto("sig_strength")

\* Steps 5 to 7; an exception of the five-bar lookup ends in the catch-all.
SigStrength ==
    /\ pc = "sig_strength"
    /\ IF input.volume_fetch = "raises" THEN SigReturn(NoResult)
       ELSE SigReturn(Signal(input))

NextSignal ==
    \/ SigAKill
    \/ SigThreeWaves
    \/ SigConsolidation
    \/ SigToday
    \/ SigStrength

SpecSignal == InitSignal /\ [][NextSignal]_vars

(***************************************************************************)
(* Properties of generate_trade_signal, checked under SpecSignal.          *)
(***************************************************************************)
\* The call returned from the strength decision of step 7.
Decided ==
    /\ pc = "sig_done"
    /\ input.a_kill.has_bottom_date
    /\ input.three_waves.confirmed
    /\ input.consolidation # NoResult
    /\ input.consolidation.is_consolidating
    /\ input.today \notin NoFrame
    /\ input.volume_fetch = "ok"

\* C10: the strength is the first match in the order strong, medium, weak:
\* strong with position_ratio = base iff breakthrough, early_break and
\* volume_ratio > 1.5; otherwise medium with 0.6 base iff breakthrough and
\* volume_ratio > 1.2; otherwise weak with 0.3 base iff today's high is
\* above the resistance and volume_ratio > 1.0; otherwise no signal.
C10_StrengthByFirstMatch ==
    Decided =>
        LET t == input.today
            r == input.three_waves.wave3_high
            frame == Append(input.prev_volumes, t.volume)
            mean5 == IF Len(frame) >= 5 THEN <<SeqSum(frame), 5>> ELSE <<t.volume, 1>>
            v == IF mean5[1] > 0 THEN <<t.volume * mean5[2], mean5[1]>> ELSE <<1, 1>>
            breakthrough == t.close > r
            early_break == 100 * t.high > 101 * r /\ 100 * t.close > 102 * t.open
            strong == breakthrough /\ early_break /\ 2 * v[1] > 3 * v[2]
            medium == ~strong /\ breakthrough /\ 5 * v[1] > 6 * v[2]
            weak == ~strong /\ ~medium /\ t.high > r /\ v[1] > v[2]
            base == position_ratio_pct * 10
            emitted == result # NoResult
        IN  /\ emitted <=> (strong \/ medium \/ weak)
            /\ emitted =>
                 /\ strong <=> (result.signal_strength = "strong"
                                /\ result.position_ratio = base)
                 /\ medium <=> (result.signal_strength = "medium"
                                /\ 10 * result.position_ratio = 6 * base)
                 /\ weak <=> (result.signal_strength = "weak"
                              /\ 10 * result.position_ratio = 3 * base)

\* C10 witness: a medium signal on a breakthrough with volume_ratio above
\* 1.5 that is not an early break.
C10_Witness ==
    /\ Decided
    /\ result # NoResult
    /\ result.signal_strength = "medium"
    /\ 2 * result.volume_ratio.num > 3 * result.volume_ratio.den
    /\ input.today.close > input.three_waves.wave3_high

\* identify_A_kill takes one of its three default exits: the lookup raised,
\* fewer than 60 bars came back, or the overall rise is not above 30%.
DefaultAKill ==
    \/ input.history.fetch = "raises"
    \/ input.history.bars < 60
    \/ (input.history.max_high - input.history.min_close) * 100
          <= 30 * input.history.min_close

\* C17: when identify_A_kill takes a default exit, its result says the
\* pattern is present but carries no bottom date, generate_trade_signal
\* never gets past its first step to the three-wave or the consolidation
\* detector or any later step, and what it returns is no signal.
C17_DefaultAKillYieldsNoSignal ==
    DefaultAKill =>
        /\ input.a_kill.has_A_kill
        /\ ~input.a_kill.has_bottom_date
        /\ pc \in {"sig_a_kill", "sig_done"}
        /\ pc = "sig_done" => result = NoResult

\* C17 witness: the call returned for a stock with 60 bars and a rise of
\* exactly 30%, whose other inputs would have produced a signal.
C17_Witness ==
    /\ pc = "sig_done"
    /\ input.history = [fetch |-> "ok", bars |-> 60, max_high |-> 130, min_close |-> 100]
    /\ input.three_waves.confirmed
    /\ input.consolidation # NoResult
    /\ input.consolidation.is_consolidating
    /\ input.today \notin NoFrame
    /\ input.volume_fetch = "ok"
    /\ Signal(input) # NoResult
    /\ result = NoResult

=============================================================================
